---- MODULE Spec2Model ----
(***************************************************************************)
(* Model of src/team/protocol-adapter.ts: the conversions between the OMC  *)
(* team records (TaskFile, OutboxMessage, InboxMessage, HeartbeatData) and *)
(* the cli-agent-mail protocol records (ProtocolTask, ProtocolMessage,     *)
(* ProtocolHeartbeat).                                                     *)
(*                                                                         *)
(* The adapter keeps no state.  The state of the model is one caller's     *)
(* call: the function, its arguments, its outcome.  A caller may feed the  *)
(* outcome of a to* conversion straight into the matching from*            *)
(* conversion, and orig then remembers the record the round trip started   *)
(* from.                                                                   *)
(***************************************************************************)
EXTENDS Integers, Sequences, FiniteSets, TLC

VARIABLES pc, call, arg, ret, orig

vars == <<pc, call, arg, ret, orig>>

(***************************************************************************)
(* Bounds of the input domains.                                            *)
(***************************************************************************)
MaxListLen == 1
MaxMetaKeys == 1
MaxErrors == 1

(***************************************************************************)
(* JavaScript values.  Every value is a record of one shape, told apart by *)
(* its tag t: s holds a string, n a number, l the elements of an array, o  *)
(* the own enumerable properties of a plain object (a function from keys   *)
(* to values).  A property that holds undefined is a property of o; a      *)
(* missing property is not in DOMAIN o.                                    *)
(***************************************************************************)
Undefined == [t |-> "undefined", s |-> "", n |-> 0, l |-> <<>>, o |-> <<>>]
Null == [t |-> "null", s |-> "", n |-> 0, l |-> <<>>, o |-> <<>>]
Str(x) == [t |-> "string", s |-> x, n |-> 0, l |-> <<>>, o |-> <<>>]
Num(x) == [t |-> "number", s |-> "", n |-> x, l |-> <<>>, o |-> <<>>]
Arr(x) == [t |-> "array", s |-> "", n |-> 0, l |-> x, o |-> <<>>]
Obj(f) == [t |-> "object", s |-> "", n |-> 0, l |-> <<>>, o |-> f]

\* The outcome of a call that raised instead of returning.
TypeError == [t |-> "TypeError", s |-> "", n |-> 0, l |-> <<>>, o |-> <<>>]

\* v === undefined || v === null
Nullish(v) == v.t \in {"undefined", "null"}

\* v ?? d
Coalesce(v, d) == IF Nullish(v) THEN d ELSE v

\* ToBoolean(v), as || applies it
Truthy(v) ==
  CASE v.t \in {"undefined", "null"} -> FALSE
    [] v.t = "string" -> v.s # ""
    [] v.t = "number" -> v.n # 0
    [] OTHER -> TRUE

\* v[k] for a non-nullish v: the property when v is an object that has it,
\* undefined otherwise (a number has no such property).
Get(v, k) == IF v.t = "object" /\ k \in DOMAIN v.o THEN v.o[k] ELSE Undefined

\* The own enumerable string-keyed properties of v, as the object spread and
\* Object.entries see them: those of a plain object, none of a number.
Entries(v) == IF v.t = "object" THEN v.o ELSE <<>>

\* { ...a, ...b }: the properties of b win.
Assign(a, b) ==
  [k \in (DOMAIN a) \cup (DOMAIN b) |-> IF k \in DOMAIN b THEN b[k] ELSE a[k]]

\* Array.isArray(v)
IsArray(v) == v.t = "array"

\* v.length for a non-nullish v: the length of an array, undefined on a number.
Length(v) == IF v.t = "array" THEN Num(Len(v.l)) ELSE Undefined

\* v > 0: false when v is undefined (undefined converts to NaN).
GreaterThanZero(v) == v.t = "number" /\ v.n > 0

(***************************************************************************)
(* TaskFile <-> ProtocolTask                                               *)
(***************************************************************************)
ReservedTaskKeys == {"blocks", "activeForm", "claimedBy", "claimedAt", "claimPid"}

\* TaskMetadata with the spread written after the five fields.
TaskMetadataSpreadLast(task) ==
  Assign([blocks |-> task.blocks,
          activeForm |-> task.activeForm,
          claimedBy |-> task.claimedBy,
          claimedAt |-> task.claimedAt,
          claimPid |-> task.claimPid],
         Entries(Coalesce(task.metadata, Obj(<<>>))))

\* The object literal of the metadata: the spread first, then the five fields.
TaskMetadata(task) ==
  Assign(Entries(Coalesce(task.metadata, Obj(<<>>))),
         [blocks |-> task.blocks,
          activeForm |-> task.activeForm,
          claimedBy |-> task.claimedBy,
          claimedAt |-> task.claimedAt,
          claimPid |-> task.claimPid])

\* DependsOn without the test of the length.
DependsOnAlways(task) == task.blockedBy

\* task.blockedBy.length > 0 ? task.blockedBy : undefined
DependsOn(task) ==
  IF GreaterThanZero(Length(task.blockedBy)) THEN task.blockedBy ELSE Undefined

\* now is the reading of new Date().toISOString().  Reading .length of an
\* undefined or null blockedBy raises a TypeError.
toProtocolTask(task, now) ==
  IF Nullish(task.blockedBy) THEN TypeError
  ELSE [schema_version |-> Num(1),
        id |-> task.id,
        subject |-> task.subject,
        description |-> task.description,
        status |-> task.status,
        owner |-> IF Truthy(task.owner) THEN task.owner ELSE Undefined,
        depends_on |-> DependsOn(task),
        version |-> Num(1),
        metadata |-> Obj(TaskMetadata(task)),
        created_at |-> Str(now)]

\* UserMetadata with claimPid left out of the list of filtered keys.
UserMetadataKeepsClaimPid(meta) ==
  [k \in (DOMAIN Entries(meta)) \ (ReservedTaskKeys \ {"claimPid"}) |-> Entries(meta)[k]]

\* Object.fromEntries(Object.entries(meta).filter(([k]) => !reserved.includes(k)))
UserMetadata(meta) ==
  [k \in (DOMAIN Entries(meta)) \ ReservedTaskKeys |-> Entries(meta)[k]]

\* BlocksOf with ?? in place of the Array.isArray test.
BlocksOfUnchecked(meta) == Coalesce(Get(meta, "blocks"), Arr(<<>>))

\* Array.isArray(meta['blocks']) ? meta['blocks'] : []
BlocksOf(meta) ==
  IF IsArray(Get(meta, "blocks")) THEN Get(meta, "blocks") ELSE Arr(<<>>)

\* fromProtocolTask without the default of blockedBy.
fromProtocolTaskNoDefault(task) ==
  LET meta == Coalesce(task.metadata, Obj(<<>>)) IN
  [id |-> task.id,
   subject |-> task.subject,
   description |-> task.description,
   activeForm |-> Coalesce(Get(meta, "activeForm"), Undefined),
   status |-> task.status,
   owner |-> Coalesce(task.owner, Str("")),
   blocks |-> BlocksOf(meta),
   blockedBy |-> task.depends_on,
   metadata |-> Obj(UserMetadata(meta)),
   claimedBy |-> Get(meta, "claimedBy"),
   claimedAt |-> Get(meta, "claimedAt"),
   claimPid |-> Get(meta, "claimPid")]

fromProtocolTask(task) ==
  LET meta == Coalesce(task.metadata, Obj(<<>>)) IN
  [id |-> task.id,
   subject |-> task.subject,
   description |-> task.description,
   activeForm |-> Coalesce(Get(meta, "activeForm"), Undefined),
   status |-> task.status,
   owner |-> Coalesce(task.owner, Str("")),
   blocks |-> BlocksOf(meta),
   blockedBy |-> Coalesce(task.depends_on, Arr(<<>>)),
   metadata |-> Obj(UserMetadata(meta)),
   claimedBy |-> Get(meta, "claimedBy"),
   claimedAt |-> Get(meta, "claimedAt"),
   claimPid |-> Get(meta, "claimPid")]

(***************************************************************************)
(* OutboxMessage -> ProtocolMessage, ProtocolMessage -> InboxMessage        *)
(***************************************************************************)
\* ProtocolType with the case 'error' missing.
ProtocolTypeNoError(type) ==
  CASE type \in {Str("ready"), Str("idle"), Str("heartbeat"),
                 Str("shutdown_ack"), Str("drain_ack")} -> "status"
    [] type \in {Str("task_complete"), Str("task_failed")} -> "result"
    [] OTHER -> "chat"

\* The switch over msg.type.
ProtocolType(type) ==
  CASE type \in {Str("ready"), Str("idle"), Str("heartbeat"),
                 Str("shutdown_ack"), Str("drain_ack")} -> "status"
    [] type \in {Str("task_complete"), Str("task_failed")} -> "result"
    [] type = Str("error") -> "status"
    [] OTHER -> "chat"

\* The text a template literal or JSON.stringify gives a string or a number.
ToText(v) == IF v.t = "number" THEN ToString(v.n) ELSE v.s

\* JSON.stringify of one value of a member: a string is quoted (the strings
\* of the model need no escaping), null and numbers are bare.
JsonValue(v) ==
  CASE v.t = "string" -> "\"" \o v.s \o "\""
    [] v.t = "null" -> "null"
    [] OTHER -> ToText(v)

\* The members of JSON.stringify of an object literal whose properties are,
\* in order, the <<key, value>> pairs of props: a property holding undefined
\* is left out, the others are joined by commas.
RECURSIVE JsonMembers(_)
JsonMembers(props) ==
  IF props = <<>> THEN ""
  ELSE LET p == Head(props)
           rest == JsonMembers(Tail(props))
       IN IF p[2].t = "undefined" THEN rest
          ELSE "\"" \o p[1] \o "\":" \o JsonValue(p[2])
               \o (IF rest = "" THEN "" ELSE "," \o rest)

JsonStringify(props) == "{" \o JsonMembers(props) \o "}"

MessageBody(msg) ==
  JsonStringify(<< <<"type", msg.type>>,
                   <<"taskId", msg.taskId>>,
                   <<"summary", msg.summary>>,
                   <<"message", msg.message>>,
                   <<"error", msg.error>>,
                   <<"requestId", msg.requestId>> >>)

\* suffix is the reading of Math.random().toString(36).slice(2, 8).
toProtocolMessage(msg, workerName, suffix) ==
  [message_id |-> Str(workerName.s \o "-" \o ToText(msg.timestamp) \o "-" \o suffix),
   from |-> workerName,
   to |-> Str("lead"),
   type |-> Str(ProtocolType(msg.type)),
   body |-> Str(MessageBody(msg)),
   created_at |-> msg.timestamp]

fromProtocolMessage(msg) ==
  [type |-> IF msg.type = Str("instruction") THEN Str("message") ELSE Str("context"),
   content |-> msg.body,
   timestamp |-> msg.created_at]

(***************************************************************************)
(* HeartbeatData <-> ProtocolHeartbeat                                     *)
(***************************************************************************)
\* ProtocolStatus without the mapping of 'quarantined'.
ProtocolStatusUnmapped(hb) == hb.status

\* hb.status === 'quarantined' ? 'shutdown' : hb.status
ProtocolStatus(hb) ==
  IF hb.status = Str("quarantined") THEN Str("shutdown") ELSE hb.status

toProtocolHeartbeat(hb) ==
  [pid |-> hb.pid,
   last_active_at |-> hb.lastPollAt,
   status |-> ProtocolStatus(hb),
   current_task_id |-> hb.currentTaskId,
   metadata |-> Obj([workerName |-> hb.workerName,
                     teamName |-> hb.teamName,
                     provider |-> hb.provider,
                     consecutiveErrors |-> hb.consecutiveErrors,
                     omcStatus |-> hb.status])]

\* fromProtocolHeartbeat reading the status of the external field only.
fromProtocolHeartbeatExternalStatus(hb, workerName, teamName) ==
  LET meta == Coalesce(hb.metadata, Obj(<<>>))
  IN [workerName |-> Coalesce(Get(meta, "workerName"), workerName),
      teamName |-> Coalesce(Get(meta, "teamName"), teamName),
      provider |-> Coalesce(Get(meta, "provider"), Str("codex")),
      pid |-> hb.pid,
      lastPollAt |-> hb.last_active_at,
      currentTaskId |-> hb.current_task_id,
      consecutiveErrors |-> Coalesce(Get(meta, "consecutiveErrors"), Num(0)),
      status |-> hb.status]

\* fromProtocolHeartbeat with the two fallback names swapped.
fromProtocolHeartbeatSwapped(hb, workerName, teamName) ==
  LET meta == Coalesce(hb.metadata, Obj(<<>>))
      omcStatus == Coalesce(Get(meta, "omcStatus"), hb.status)
  IN [workerName |-> Coalesce(Get(meta, "workerName"), teamName),
      teamName |-> Coalesce(Get(meta, "teamName"), workerName),
      provider |-> Coalesce(Get(meta, "provider"), Str("codex")),
      pid |-> hb.pid,
      lastPollAt |-> hb.last_active_at,
      currentTaskId |-> hb.current_task_id,
      consecutiveErrors |-> Coalesce(Get(meta, "consecutiveErrors"), Num(0)),
      status |-> omcStatus]

fromProtocolHeartbeat(hb, workerName, teamName) ==
  LET meta == Coalesce(hb.metadata, Obj(<<>>))
      omcStatus == Coalesce(Get(meta, "omcStatus"), hb.status)
  IN [workerName |-> Coalesce(Get(meta, "workerName"), workerName),
      teamName |-> Coalesce(Get(meta, "teamName"), teamName),
      provider |-> Coalesce(Get(meta, "provider"), Str("codex")),
      pid |-> hb.pid,
      lastPollAt |-> hb.last_active_at,
      currentTaskId |-> hb.current_task_id,
      consecutiveErrors |-> Coalesce(Get(meta, "consecutiveErrors"), Num(0)),
      status |-> omcStatus]

(***************************************************************************)
(* The records callers pass in.                                            *)
(***************************************************************************)
SeqsUpTo(S, n) == UNION {[1..k -> S] : k \in 0..n}

\* Objects with at most MaxMetaKeys properties among keys, each property k
\* holding one of the values of vals[k].
Objects(keys, vals) ==
  {Obj(f) : f \in UNION {{g \in [D -> UNION {vals[k] : k \in keys}] :
                             \A k \in D : g[k] \in vals[k]} :
                         D \in {E \in SUBSET keys : Cardinality(E) <= MaxMetaKeys}}}

TaskIds == {"1", "2"}
IdLists == {Arr(l) : l \in SeqsUpTo(TaskIds, MaxListLen)}

\* Free-form task metadata: a user key, and the five keys the adapter uses.
TaskMetaKeys == ReservedTaskKeys \cup {"note"}
TaskMetaValues ==
  [k \in TaskMetaKeys |->
     IF k = "blocks" THEN {Str("x"), Arr(<<"9">>)} ELSE {Null, Str("x")}]
TaskMetas == Objects(TaskMetaKeys, TaskMetaValues)

Claims ==
  {[claimedBy |-> Undefined, claimedAt |-> Undefined, claimPid |-> Undefined],
   [claimedBy |-> Str("w2"), claimedAt |-> Undefined, claimPid |-> Undefined],
   [claimedBy |-> Str("w2"), claimedAt |-> Num(0), claimPid |-> Num(4242)]}

Task(owner, blockedBy, blocks, metadata, activeForm, claim) ==
  [id |-> Str("7"),
   subject |-> Str("Fix the build"),
   description |-> Str("Make CI green"),
   activeForm |-> activeForm,
   status |-> Str("in_progress"),
   owner |-> owner,
   blocks |-> blocks,
   blockedBy |-> blockedBy,
   metadata |-> metadata,
   claimedBy |-> claim.claimedBy,
   claimedAt |-> claim.claimedAt,
   claimPid |-> claim.claimPid]

\* Records of the TaskFile type.
TypedTaskFiles ==
  {Task(ow, bb, bl, md, af, c) :
     ow \in {Undefined, Str(""), Str("w1")},
     bb \in IdLists,
     bl \in IdLists,
     md \in {Undefined} \cup TaskMetas,
     af \in {Undefined, Str("Fixing the build")},
     c \in Claims}

\* Records that break the TaskFile type: fields absent, null or of another
\* shape, as a record parsed from a file can be.
UntypedTaskFiles ==
  {Task(ow, bb, bl, md, af, c) :
     ow \in {Null, Str("w1")},
     bb \in {Undefined, Null, Num(3), Arr(<<>>)},
     bl \in {Undefined, Str("x"), Arr(<<"1">>)},
     md \in {Undefined, Null, Num(5)},
     af \in {Undefined, Null},
     c \in {[claimedBy |-> Undefined, claimedAt |-> Undefined, claimPid |-> Undefined]}}

TaskFiles == TypedTaskFiles \cup UntypedTaskFiles

\* Readings of new Date().toISOString().
Clock == {"2026-01-01T00:00:00.000Z", "2026-01-01T00:00:00.001Z"}

\* External task records as they arrive from the transport.
ProtocolTasks ==
  [schema_version : {Num(1)},
   id : {Str("7")},
   subject : {Str("Fix the build")},
   description : {Str("Make CI green")},
   status : {Str("in_progress")},
   owner : {Undefined, Null, Str("w1")},
   depends_on : {Undefined, Null} \cup IdLists,
   version : {Num(1)},
   metadata : {Undefined, Null, Num(5)} \cup TaskMetas,
   created_at : {Str("2026-01-01T00:00:00.000Z")}]

\* Readings of Math.random().toString(36).slice(2, 8).
Suffixes == {"k3x9qa", "0z81mm"}

WorkerNames == {Str("w1"), Str("w2")}
TeamNames == {Str("t1"), Str("t2")}

\* The kinds the switch names, and two it does not.
MessageKinds ==
  {"ready", "idle", "heartbeat", "shutdown_ack", "drain_ack", "task_complete",
   "task_failed", "error", "all_tasks_complete", "note"}

OutboxMessages ==
  [type : {Str(k) : k \in MessageKinds},
   taskId : {Undefined, Str("7")},
   summary : {Undefined, Str("done")},
   message : {Undefined},
   error : {Undefined, Str("boom")},
   requestId : {Undefined, Null},
   timestamp : {Num(1700), Str("2026-01-01T00:00:00.000Z")}]

ProtocolMessages ==
  [message_id : {Str("lead-1700-aaaaaa")},
   from : {Str("lead")},
   to : WorkerNames,
   type : {Str("status"), Str("result"), Str("chat"), Str("instruction")},
   body : {Str("go on"), Str("")},
   created_at : {Num(1700), Str("2026-01-01T00:00:00.000Z")}]

\* The statuses of HeartbeatData: those of ProtocolHeartbeat and 'quarantined'.
ProtocolStatuses == {"ready", "polling", "executing", "shutdown"}
HeartbeatStatuses == ProtocolStatuses \cup {"quarantined"}

HeartbeatDatas ==
  [workerName : WorkerNames,
   teamName : {Str("t1")},
   provider : {Str("codex"), Str("gemini")},
   pid : {Num(100)},
   lastPollAt : {Str("2026-01-01T00:00:00.000Z")},
   currentTaskId : {Undefined, Str("7")},
   consecutiveErrors : {Num(n) : n \in 0..MaxErrors},
   status : {Str(x) : x \in HeartbeatStatuses}]

HeartbeatMetaKeys ==
  {"workerName", "teamName", "provider", "consecutiveErrors", "omcStatus"}
HeartbeatMetaValues ==
  [k \in HeartbeatMetaKeys |->
     CASE k = "workerName" -> {Null, Str("w9")}
       [] k = "teamName" -> {Null, Str("t9")}
       [] k = "provider" -> {Undefined, Null, Str("gemini")}
       [] k = "consecutiveErrors" -> {Null} \cup {Num(n) : n \in 0..MaxErrors}
       [] k = "omcStatus" -> {Null, Str("quarantined"), Str("polling")}]

\* External heartbeats as they arrive from the transport.
ProtocolHeartbeats ==
  [pid : {Num(100)},
   last_active_at : {Str("2026-01-01T00:00:00.000Z")},
   status : {Str(x) : x \in ProtocolStatuses},
   current_task_id : {Undefined, Str("7")},
   metadata : {Undefined, Null} \cup Objects(HeartbeatMetaKeys, HeartbeatMetaValues)]

(***************************************************************************)
(* The calls.  A caller holds the arguments of one call (pc = "call"); the *)
(* call returns or raises (pc = "return"); the caller may then hand the    *)
(* record a to* conversion returned to the matching from* conversion.      *)
(***************************************************************************)
Requests ==
  ({"toProtocolTask"} \X {<<task>> : task \in TaskFiles})
  \cup ({"fromProtocolTask"} \X {<<task>> : task \in ProtocolTasks})
  \cup ({"toProtocolMessage"} \X (OutboxMessages \X WorkerNames))
  \cup ({"fromProtocolMessage"} \X {<<msg>> : msg \in ProtocolMessages})
  \cup ({"toProtocolHeartbeat"} \X {<<hb>> : hb \in HeartbeatDatas})
  \cup ({"fromProtocolHeartbeat"} \X (ProtocolHeartbeats \X WorkerNames \X TeamNames))

Init ==
  /\ pc = "call"
  /\ \E r \in Requests : call = r[1] /\ arg = r[2]
  /\ ret = Undefined
  /\ orig = Undefined

ToProtocolTask ==
  /\ pc = "call"
  /\ call = "toProtocolTask"
  /\ \E now \in Clock : ret' = toProtocolTask(arg[1], now)
  /\ pc' = "return"
  /\ UNCHANGED <<call, arg, orig>>

\* fromProtocolTask on a record that arrives from the transport.
FromProtocolTask ==
  /\ pc = "call"
  /\ call = "fromProtocolTask"
  /\ ret' = fromProtocolTask(arg[1])
  /\ pc' = "return"
  /\ UNCHANGED <<call, arg, orig>>

\* fromProtocolTask on the record toProtocolTask has just returned.
FromProtocolTaskBack ==
  /\ pc = "return"
  /\ call = "toProtocolTask"
  /\ ret # TypeError
  /\ call' = "fromProtocolTask"
  /\ arg' = <<ret>>
  /\ ret' = fromProtocolTask(ret)
  /\ orig' = arg[1]
  /\ pc' = "return"

ToProtocolMessage ==
  /\ pc = "call"
  /\ call = "toProtocolMessage"
  /\ \E suffix \in Suffixes : ret' = toProtocolMessage(arg[1], arg[2], suffix)
  /\ pc' = "return"
  /\ UNCHANGED <<call, arg, orig>>

FromProtocolMessage ==
  /\ pc = "call"
  /\ call = "fromProtocolMessage"
  /\ ret' = fromProtocolMessage(arg[1])
  /\ pc' = "return"
  /\ UNCHANGED <<call, arg, orig>>

ToProtocolHeartbeat ==
  /\ pc = "call"
  /\ call = "toProtocolHeartbeat"
  /\ ret' = toProtocolHeartbeat(arg[1])
  /\ pc' = "return"
  /\ UNCHANGED <<call, arg, orig>>

\* fromProtocolHeartbeat on a heartbeat that arrives from the transport.
FromProtocolHeartbeat ==
  /\ pc = "call"
  /\ call = "fromProtocolHeartbeat"
  /\ ret' = fromProtocolHeartbeat(arg[1], arg[2], arg[3])
  /\ pc' = "return"
  /\ UNCHANGED <<call, arg, orig>>

\* fromProtocolHeartbeat on the heartbeat toProtocolHeartbeat has just
\* returned, with fallback names of the caller's choosing.
FromProtocolHeartbeatBack ==
  /\ pc = "return"
  /\ call = "toProtocolHeartbeat"
  /\ \E workerName \in WorkerNames, teamName \in TeamNames :
       /\ arg' = <<ret, workerName, teamName>>
       /\ ret' = fromProtocolHeartbeat(ret, workerName, teamName)
  /\ call' = "fromProtocolHeartbeat"
  /\ orig' = arg[1]
  /\ pc' = "return"

Next ==
  \/ ToProtocolTask
  \/ FromProtocolTask
  \/ FromProtocolTaskBack
  \/ ToProtocolMessage
  \/ FromProtocolMessage
  \/ ToProtocolHeartbeat
  \/ FromProtocolHeartbeat
  \/ FromProtocolHeartbeatBack

Spec == Init /\ [][Next]_vars

(***************************************************************************)
(* Properties.                                                             *)
(***************************************************************************)
Returned(fn) == pc = "return" /\ call = fn

\* A round trip: a from* call on the record the matching to* call returned.
RoundTrip(fn) == Returned(fn) /\ orig # Undefined

\* t has the shapes the TaskFile type gives its fields.
IsTaskFile(t) ==
  /\ t.owner.t \in {"undefined", "string"}
  /\ t.blocks.t = "array"
  /\ t.blockedBy.t = "array"
  /\ t.metadata.t \in {"undefined", "object"}
  /\ t.activeForm.t \in {"undefined", "string"}
  /\ t.claimedBy.t \in {"undefined", "string"}
  /\ t.claimedAt.t \in {"undefined", "number"}
  /\ t.claimPid.t \in {"undefined", "number"}

MetadataKeys(t) == IF t.metadata.t = "object" THEN DOMAIN t.metadata.o ELSE {}

\* C1: for a task t of the TaskFile type with a non-empty owner and no
\* metadata entry under blocks, activeForm, claimedBy, claimedAt, claimPid,
\* fromProtocolTask(toProtocolTask(t)) has the blocks, blockedBy, activeForm,
\* claimedBy, claimedAt and claimPid of t.
C1_RoundTripRestoresFields ==
  (/\ RoundTrip("fromProtocolTask")
   /\ IsTaskFile(orig)
   /\ orig.owner.t = "string" /\ orig.owner.s # ""
   /\ MetadataKeys(orig) \cap
        {"blocks", "activeForm", "claimedBy", "claimedAt", "claimPid"} = {})
  => /\ ret.blocks = orig.blocks
     /\ ret.blockedBy = orig.blockedBy
     /\ ret.activeForm = orig.activeForm
     /\ ret.claimedBy = orig.claimedBy
     /\ ret.claimedAt = orig.claimedAt
     /\ ret.claimPid = orig.claimPid

\* A round trip of a task with an owner, user metadata, blocks, an empty
\* blockedBy and none of the optional fields.
C1_Witness ==
  /\ RoundTrip("fromProtocolTask")
  /\ IsTaskFile(orig)
  /\ orig.owner = Str("w1")
  /\ MetadataKeys(orig) = {"note"}
  /\ orig.blockedBy = Arr(<<>>)
  /\ orig.blocks = Arr(<<"2">>)
  /\ orig.activeForm = Undefined
  /\ orig.claimedBy = Undefined
  /\ arg[1].depends_on = Undefined
  /\ ret.blockedBy = Arr(<<>>)
  /\ ret.blocks = Arr(<<"2">>)

\* C2: for every heartbeat h and all fallback names,
\* fromProtocolHeartbeat(toProtocolHeartbeat(h), w, t).status = h.status.
C2_RoundTripRestoresStatus ==
  RoundTrip("fromProtocolHeartbeat") => ret.status = orig.status

\* A round trip of a quarantined heartbeat through the external status
\* 'shutdown'.
C2_Witness ==
  /\ RoundTrip("fromProtocolHeartbeat")
  /\ orig.status = Str("quarantined")
  /\ arg[1].status = Str("shutdown")
  /\ ret.status = Str("quarantined")

\* C3: toProtocolHeartbeat turns the status 'quarantined' into the external
\* status 'shutdown' with metadata.omcStatus 'quarantined', and every other
\* status s into the external status s with metadata.omcStatus s; the
\* external status is never 'quarantined'.
C3_QuarantinedBecomesShutdown ==
  Returned("toProtocolHeartbeat") =>
    /\ arg[1].status = Str("quarantined") =>
         /\ ret.status = Str("shutdown")
         /\ "omcStatus" \in DOMAIN ret.metadata.o
         /\ ret.metadata.o["omcStatus"] = Str("quarantined")
    /\ arg[1].status # Str("quarantined") =>
         /\ ret.status = arg[1].status
         /\ "omcStatus" \in DOMAIN ret.metadata.o
         /\ ret.metadata.o["omcStatus"] = arg[1].status
    /\ ret.status # Str("quarantined")

C3_Witness ==
  /\ Returned("toProtocolHeartbeat")
  /\ arg[1].status = Str("quarantined")
  /\ ret.status = Str("shutdown")
  /\ ret.metadata.o["omcStatus"] = Str("quarantined")

\* C4: the external type of toProtocolMessage is 'status' for the kinds
\* ready, idle, heartbeat, shutdown_ack, drain_ack and error, 'result' for
\* task_complete and task_failed, and 'chat' for every other kind, whatever
\* the sender and the other fields of the message.
C4_TypeFollowsKind ==
  Returned("toProtocolMessage") =>
    ret.type =
      (IF arg[1].type.s \in {"ready", "idle", "heartbeat", "shutdown_ack",
                             "drain_ack", "error"}
         THEN Str("status")
       ELSE IF arg[1].type.s \in {"task_complete", "task_failed"}
         THEN Str("result")
       ELSE Str("chat"))

\* An error message with an error text, classified 'status'.
C4_Witness ==
  /\ Returned("toProtocolMessage")
  /\ arg[1].type = Str("error")
  /\ arg[1].error = Str("boom")
  /\ arg[2] = Str("w2")
  /\ ret.type = Str("status")

\* C5: for a task whose blockedBy is a list, toProtocolTask returns a record
\* whose depends_on is undefined when the list is empty and is the list
\* otherwise; depends_on is never an empty list.
C5_DependsOnAbsentWhenEmpty ==
  (Returned("toProtocolTask") /\ arg[1].blockedBy.t = "array") =>
    /\ ret # TypeError
    /\ arg[1].blockedBy.l = <<>> => ret.depends_on = Undefined
    /\ arg[1].blockedBy.l # <<>> => ret.depends_on = arg[1].blockedBy
    /\ ret.depends_on # Arr(<<>>)

C5_Witness ==
  /\ Returned("toProtocolTask")
  /\ arg[1].blockedBy = Arr(<<>>)
  /\ ret # TypeError
  /\ ret.depends_on = Undefined

\* The fields fromProtocolHeartbeat reads from the metadata, each with the
\* value it takes when the metadata gives none.
HeartbeatDefaults ==
  [workerName |-> arg[2],
   teamName |-> arg[3],
   provider |-> Str("codex"),
   consecutiveErrors |-> Num(0)]

HeartbeatDefaultsWhenNoMetadata ==
  Nullish(arg[1].metadata) =>
    /\ \A k \in DOMAIN HeartbeatDefaults : ret[k] = HeartbeatDefaults[k]
    /\ ret.status = arg[1].status

\* C6 as stated: with no metadata the result has the fallback names, the
\* provider 'codex', consecutiveErrors 0 and the external status; a metadata
\* entry for workerName, teamName, provider or consecutiveErrors, when
\* present, is used instead of the fallback or default.
C6_PresentEntryIsUsed ==
  Returned("fromProtocolHeartbeat") =>
    /\ HeartbeatDefaultsWhenNoMetadata
    /\ \A k \in DOMAIN HeartbeatDefaults :
         Get(arg[1].metadata, k) # Undefined => ret[k] = Get(arg[1].metadata, k)

\* C6, amended: with no metadata the result has the fallback names, the
\* provider 'codex', consecutiveErrors 0 and the external status; a metadata
\* entry for workerName, teamName, provider or consecutiveErrors is used
\* when it holds a value other than null and undefined, and the fallback or
\* default is used when the entry is missing or holds null or undefined.
C6_NonNullEntryIsUsed ==
  Returned("fromProtocolHeartbeat") =>
    /\ HeartbeatDefaultsWhenNoMetadata
    /\ \A k \in DOMAIN HeartbeatDefaults :
         ret[k] = (IF Get(arg[1].metadata, k).t \in {"undefined", "null"}
                     THEN HeartbeatDefaults[k]
                     ELSE Get(arg[1].metadata, k))

\* A heartbeat from the transport whose only metadata entry is a provider,
\* converted with the fallback names w2 and t1.
C6_Witness ==
  /\ Returned("fromProtocolHeartbeat")
  /\ orig = Undefined
  /\ arg[1].metadata.t = "object"
  /\ DOMAIN arg[1].metadata.o = {"provider"}
  /\ arg[1].metadata.o["provider"] = Str("gemini")
  /\ arg[2] = Str("w2") /\ arg[3] = Str("t1")
  /\ ret.provider = Str("gemini")
  /\ ret.workerName = Str("w2") /\ ret.teamName = Str("t1")
  /\ ret.consecutiveErrors = Num(0)

\* C7: toProtocolTask has no error outcome: it returns a record for every
\* task record, also when owner, metadata, blockedBy, blocks, activeForm or
\* the claim fields are absent or malformed.
C7_ToProtocolTaskNeverRaises ==
  Returned("toProtocolTask") => ret # TypeError

\* C8: in the metadata toProtocolTask returns, each of blocks, activeForm,
\* claimedBy, claimedAt, claimPid holds the task's own field, also when the
\* task's metadata has an entry under that key, and every entry of the task's
\* metadata under another key is carried through.
C8_ReservedKeysHoldOwnFields ==
  (Returned("toProtocolTask") /\ ret # TypeError) =>
    /\ ret.metadata.t = "object"
    /\ \A k \in {"blocks", "activeForm", "claimedBy", "claimedAt", "claimPid"} :
         k \in DOMAIN ret.metadata.o /\ ret.metadata.o[k] = arg[1][k]
    /\ \A k \in MetadataKeys(arg[1]) \ {"blocks", "activeForm", "claimedBy",
                                        "claimedAt", "claimPid"} :
         k \in DOMAIN ret.metadata.o /\ ret.metadata.o[k] = arg[1].metadata.o[k]

\* A task without a claim whose metadata has an entry under claimedBy: the
\* entry is overwritten by the task's undefined claimedBy.
C8_Witness ==
  /\ Returned("toProtocolTask")
  /\ ret # TypeError
  /\ MetadataKeys(arg[1]) = {"claimedBy"}
  /\ arg[1].metadata.o["claimedBy"] = Str("x")
  /\ arg[1].claimedBy = Undefined
  /\ ret.metadata.o["claimedBy"] = Undefined

\* C9: the metadata of fromProtocolTask(p) holds exactly the entries of
\* p.metadata under keys other than blocks, activeForm, claimedBy, claimedAt,
\* claimPid, unchanged; so the metadata of fromProtocolTask(toProtocolTask(t))
\* has none of the five keys and is t's metadata without them (empty when t
\* has no metadata).
C9_MetadataWithoutReservedKeys ==
  Returned("fromProtocolTask") =>
    /\ ret.metadata.t = "object"
    /\ DOMAIN ret.metadata.o =
         MetadataKeys(arg[1]) \ {"blocks", "activeForm", "claimedBy",
                                 "claimedAt", "claimPid"}
    /\ \A k \in DOMAIN ret.metadata.o : ret.metadata.o[k] = arg[1].metadata.o[k]
    /\ orig # Undefined =>
         /\ DOMAIN ret.metadata.o =
              MetadataKeys(orig) \ {"blocks", "activeForm", "claimedBy",
                                    "claimedAt", "claimPid"}
         /\ \A k \in DOMAIN ret.metadata.o : ret.metadata.o[k] = orig.metadata.o[k]
         /\ Nullish(orig.metadata) => ret.metadata = Obj(<<>>)

\* A round trip of a task with a claim and a note: the note comes back, the
\* claim fields do not show in the metadata.
C9_Witness ==
  /\ RoundTrip("fromProtocolTask")
  /\ MetadataKeys(orig) = {"note"}
  /\ orig.claimPid = Num(4242)
  /\ arg[1].metadata.o["claimPid"] = Num(4242)
  /\ DOMAIN ret.metadata.o = {"note"}
  /\ ret.metadata.o["note"] = orig.metadata.o["note"]

\* C10: fromProtocolTask raises on no record: blocks is [] when the metadata
\* is absent or metadata.blocks is absent or no list, blockedBy is [] when
\* depends_on is absent, owner is '' when owner is absent, and activeForm,
\* claimedBy, claimedAt, claimPid are undefined when the metadata has no
\* entry for them.
C10_FromProtocolTaskDefaults ==
  Returned("fromProtocolTask") =>
    /\ ret # TypeError
    /\ (\/ Nullish(arg[1].metadata)
        \/ "blocks" \notin MetadataKeys(arg[1])
        \/ arg[1].metadata.o["blocks"].t # "array") => ret.blocks = Arr(<<>>)
    /\ arg[1].depends_on = Undefined => ret.blockedBy = Arr(<<>>)
    /\ arg[1].owner = Undefined => ret.owner = Str("")
    /\ \A k \in {"activeForm", "claimedBy", "claimedAt", "claimPid"} :
         k \notin MetadataKeys(arg[1]) => ret[k] = Undefined

\* A record from the transport whose metadata.blocks is a string and whose
\* owner and depends_on are absent.
C10_Witness ==
  /\ Returned("fromProtocolTask")
  /\ orig = Undefined
  /\ MetadataKeys(arg[1]) = {"blocks"}
  /\ arg[1].metadata.o["blocks"] = Str("x")
  /\ arg[1].owner = Undefined
  /\ arg[1].depends_on = Undefined
  /\ ret.blocks = Arr(<<>>)
  /\ ret.blockedBy = Arr(<<>>)
  /\ ret.owner = Str("")
  /\ ret.claimedBy = Undefined

====
